---- MODULE Spec2Model ----
(***************************************************************************)
(* Model of the <rc-agile-voting/> custom element                          *)
(* (src/components/agile-voting/agile-voting.js) and of the <rc-text-area/>*)
(* custom element (class RcTextArea,                                       *)
(* src/components/_walking_skeleton/agile-voting.test.js).                 *)
(*                                                                         *)
(* A JavaScript string is modelled as a sequence of one-character strings, *)
(* so that split(',') and the HTML parsing done by an innerHTML assignment *)
(* are computed character by character.                                    *)
(***************************************************************************)
EXTENDS Integers, Sequences, FiniteSets, TLC

VARIABLES
    attributes,     \* the host element's attributes: name -> string
    infoView,       \* this.$infoView.style.display
    formView,       \* this.$formView.style.display
    valueInfo,      \* text content of this.$valueInfo (<span id="value">)
    selector,       \* the <option> values held by this.$selector, in order
    selectedIndex,  \* 1-based index of the selected option, 0 when none
    listeners,      \* click listeners registered on #reset and #setValue
    connected,      \* the element is part of a document
    everConnected,  \* connectedCallback has run at least once
    dispatched,     \* payloads of the valueChanged events of the last operation
    bubbled,        \* those of them that propagate to the element's ancestors
    lastOp,         \* the last operation and its argument
    pre             \* facts about the state the last operation started from

\* <rc-text-area/>
VARIABLES
    areaAttributes,     \* the host element's attributes: name -> string
    textarea,           \* this.$textarea.value
    counter,            \* text of this.$counter, "count/max"
    progress,           \* this.$progress.style.width, a percentage
    classes,            \* state classes of $textarea, $progress and $counter
    saved,              \* this.$saved carries the class 'visible'
    savedTimeouts,      \* pending timeouts of _showSavedIndicator
    limitReachedFired,  \* this._limitReachedFired
    timeouts,           \* pending timeouts of the debounced _saveToStorage
    inputListener,      \* _handleInput is registered on this.$textarea
    areaConnected,      \* the element is part of a document
    localStorage,       \* the browser's store: key -> string
    areaDispatched,     \* the events dispatched by the last operation
    storageCalls,       \* the localStorage calls made by the last operation
    writes,             \* setItem calls since the debounce timer was last armed
    inputReached,       \* the last handled input ended at or above maxChars
    cleared,            \* clear() was called since the last handled input
    areaLastOp,         \* the last operation and its argument
    areaPre             \* facts about the state the last operation started from

\* A second <rc-text-area/> on the same page
VARIABLES
    other,              \* the second element: its attributes and inner state
    actor               \* the text area the last operation was made on: 1, 2

votingVars == <<attributes, infoView, formView, valueInfo, selector,
                selectedIndex, listeners, connected, everConnected, dispatched,
                bubbled, lastOp, pre>>

areaVars == <<areaAttributes, textarea, counter, progress, classes, saved,
              savedTimeouts, limitReachedFired, timeouts, inputListener,
              areaConnected, localStorage, areaDispatched, storageCalls,
              writes, inputReached, cleared, areaLastOp, areaPre>>

otherVars == <<other, actor>>

vars == <<votingVars, areaVars, otherVars>>

----------------------------------------------------------------------------
(* Bounds and input alphabets *)

MaxValueLen == 1
MaxListLen == 1

ValueChars == {"S"}
ListChars == {"S", ","}
Letters == {"X", "S", "M", "L", "p", "l", "o"}

RECURSIVE StringsUpTo(_, _)
StringsUpTo(chars, n) ==
    IF n = 0 THEN {<<>>}
    ELSE LET shorter == StringsUpTo(chars, n - 1)
         IN  shorter \cup {Append(s, c) : s \in shorter, c \in chars}

\* The values given to the component: plain texts, and the same texts written
\* after a "<" (the start of HTML markup).
PlainValues == StringsUpTo(ValueChars, MaxValueLen)
ValueInputs == PlainValues \cup {<<"<">> \o s : s \in PlainValues \ {<<>>}}
\* 'XS, S ,M': a list written with spaces around an entry.
SpacedList == <<"X", "S", ",", " ", "S", " ", ",", "M">>

\* The lists given to the component.
ListInputs == StringsUpTo(ListChars, MaxListLen) \cup {SpacedList}

\* <rc-text-area/>: the texts typed, assigned and stored are the beginnings
\* of "abcabc...", up to MaxTextLen characters.
MaxTextLen == 2
MaxSavedTimeouts == 1

TypedChars == <<"a", "b", "c">>
TypedText(n) == [i \in 1..n |-> TypedChars[((i - 1) % Len(TypedChars)) + 1]]
TextInputs == {TypedText(n) : n \in 0..MaxTextLen}

\* Values given to the max-chars attribute: '1', '0', '-1' and 'x'.
MaxCharsInputs == {<<"1">>, <<"0">>, <<"-", "1">>, <<"x">>}

\* Value given to the storage-key attribute: 'k'.
StorageKeyInputs == {<<"k">>}

----------------------------------------------------------------------------
(* Platform behaviour used by the component *)

\* String.prototype.split(','): the pieces between commas, empty ones kept.
RECURSIVE split(_)
split(s) ==
    LET commas == {i \in 1..Len(s) : s[i] = ","}
    IN  IF commas = {} THEN <<s>>
        ELSE LET i == CHOOSE k \in commas : \A m \in commas : k <= m
             IN  <<SubSeq(s, 1, i - 1)>> \o split(SubSeq(s, i + 1, Len(s)))

\* The text left in an element after `element.innerHTML = s`: s is parsed as
\* HTML, so "<" followed by a letter opens a tag that runs to the next ">"
\* (and is dropped when the input ends first); every other character is text.
RECURSIVE innerHTMLText(_), innerHTMLTag(_)
innerHTMLText(s) ==
    IF s = <<>> THEN <<>>
    ELSE IF Head(s) = "<" /\ Len(s) >= 2 /\ s[2] \in Letters
         THEN innerHTMLTag(Tail(Tail(s)))
         ELSE <<Head(s)>> \o innerHTMLText(Tail(s))
innerHTMLTag(s) ==
    IF s = <<>> THEN <<>>
    ELSE IF Head(s) = ">" THEN innerHTMLText(Tail(s))
    ELSE innerHTMLTag(Tail(s))

hasAttribute(c, name) == name \in DOMAIN c.attributes

setAttribute(c, name, v) ==
    [c EXCEPT !.attributes =
        [n \in DOMAIN c.attributes \cup {name} |->
            IF n = name THEN v ELSE c.attributes[n]]]

\* A style.display other than 'none' leaves the view shown.
Visible(display) == display # "none"

\* A value that may be null: <<>> is null, <<s>> is the string s.
Null == <<>>
Some(s) == <<s>>

\* getAttribute(name): null when the attribute is absent.
getAttribute(c, name) ==
    IF hasAttribute(c, name) THEN Some(c.attributes[name]) ELSE Null

\* A string is truthy unless it is null or ''.
Truthy(opt) == opt # Null /\ opt[1] # <<>>

\* x || '' on a string that may be null.
OrEmpty(opt) == IF Truthy(opt) THEN opt[1] ELSE <<>>

\* parseInt(string): leading blanks are skipped, then an optional sign and
\* the longest run of decimal digits are read; NaN when there is no digit.
\* parseInt(null) reads the text "null" and is NaN.
NaN == [nan |-> TRUE, n |-> 0]
Number(n) == [nan |-> FALSE, n |-> n]
Digits == <<"0", "1", "2", "3", "4", "5", "6", "7", "8", "9">>
IsDigit(ch) == \E d \in 1..Len(Digits) : Digits[d] = ch
DigitValue(ch) == (CHOOSE d \in 1..Len(Digits) : Digits[d] = ch) - 1

RECURSIVE parseDigits(_, _)
parseDigits(s, acc) ==
    IF s = <<>> \/ ~IsDigit(Head(s)) THEN acc
    ELSE parseDigits(Tail(s), acc * 10 + DigitValue(Head(s)))

RECURSIVE skipBlanks(_)
skipBlanks(s) ==
    IF s # <<>> /\ Head(s) = " " THEN skipBlanks(Tail(s)) ELSE s

parseInt(opt) ==
    IF opt = Null THEN NaN
    ELSE LET t == skipBlanks(opt[1])
             negative == t # <<>> /\ Head(t) = "-"
             body == IF t # <<>> /\ Head(t) \in {"-", "+"} THEN Tail(t) ELSE t
         IN  IF body = <<>> \/ ~IsDigit(Head(body)) THEN NaN
             ELSE Number((IF negative THEN -1 ELSE 1) * parseDigits(body, 0))

\* String.prototype.slice(0, end): a negative end counts from the end of the
\* string.
slice(s, end) ==
    LET to == IF end < 0 THEN (IF Len(s) + end < 0 THEN 0 ELSE Len(s) + end)
              ELSE (IF end > Len(s) THEN Len(s) ELSE end)
    IN  SubSeq(s, 1, to)

\* The statements of a method run one after the other, each on the instance
\* the one before it left: {Step(t1) : t1 \in {t}} is the instance Step leaves
\* when it starts from t, and Only takes it out of that set.
Only(S) == CHOOSE after \in S : TRUE

\* classList.toggle(name, force)
toggle(classList, name, force) ==
    IF force THEN classList \cup {name} ELSE classList \ {name}

----------------------------------------------------------------------------
(* The component *)

\* The instance as a record, for the methods below.
Self ==
    [attributes |-> attributes, infoView |-> infoView, formView |-> formView,
     valueInfo |-> valueInfo, selector |-> selector,
     selectedIndex |-> selectedIndex, listeners |-> listeners,
     dispatched |-> <<>>, bubbled |-> <<>>]

\* 'XS,S,M,L,XL,plop'
DefaultValues ==
    <<"X", "S", ",", "S", ",", "M", ",", "L", ",", "X", "L", ",",
      "p", "l", "o", "p">>

\* get value(): getAttribute('value') || ''
getValue(c) ==
    IF ~hasAttribute(c, "value") THEN <<>>
    ELSE IF c.attributes["value"] = <<>> THEN <<>>
    ELSE c.attributes["value"]

\* get values(): getAttribute('values') || ''
getValues(c) ==
    IF ~hasAttribute(c, "values") THEN <<>>
    ELSE IF c.attributes["values"] = <<>> THEN <<>>
    ELSE c.attributes["values"]

ensureFormShownIfNoValueSet(c) ==
    IF getValue(c) # <<>>
    THEN [c EXCEPT !.infoView = "flex", !.formView = "none"]
    ELSE [c EXCEPT !.infoView = "none", !.formView = "flex"]

render(c) ==
    LET c1 == ensureFormShownIfNoValueSet(c)
    IN  [c1 EXCEPT !.valueInfo = innerHTMLText(getValue(c1))]

\* new CustomEvent(type, init): an event does not bubble unless init says so.
CustomEvent(type, init) ==
    [type |-> type,
     detail |-> init.detail,
     bubbles |-> IF "bubbles" \in DOMAIN init THEN init.bubbles ELSE FALSE]

\* var event = new CustomEvent('valueChanged', {'detail': newValue});
\* this.dispatchEvent(event): the listeners of the element itself are called,
\* those of its ancestors only when the event bubbles.
dispatchEvent(c, detail) ==
    LET event == CustomEvent("valueChanged", [detail |-> detail])
    IN  [c EXCEPT !.dispatched = Append(c.dispatched, event.detail),
                  !.bubbled = IF event.bubbles
                              THEN Append(c.bubbled, event.detail)
                              ELSE c.bubbled]

\* set value(newValue)
setValue(c, newValue) ==
    LET c1 == setAttribute(c, "value", newValue)
        c2 == render(c1)
    IN  dispatchEvent(c2, newValue)

\* The loop of DefineOptions: one <option> per entry, added at the end.
RECURSIVE addOptions(_, _, _)
addOptions(options, values, j) ==
    IF j > Len(values) THEN options
    ELSE addOptions(Append(options, values[j]), values, j + 1)

DefineOptions_NoClear(c, values) ==
    LET options == addOptions(c.selector, values, 1)
    IN  [c EXCEPT !.selector = options,
                  !.selectedIndex = IF Len(options) = 0 THEN 0
                                    ELSE IF c.selectedIndex = 0 THEN 1
                                    ELSE c.selectedIndex]

\* The selector is emptied, then filled; a select with options and none
\* chosen shows its first option.
DefineOptions(c, values) ==
    LET options == addOptions(<<>>, values, 1)
    IN  [c EXCEPT !.selector = options,
                  !.selectedIndex = IF Len(options) = 0 THEN 0 ELSE 1]

\* set values(newValues)
setValues(c, newValues) ==
    LET c1 == setAttribute(c, "values", newValues)
        c2 == DefineOptions(c1, split(newValues))
    IN  render(c2)

\* this.$selector.value
selectorValue(c) ==
    IF c.selectedIndex = 0 THEN <<>> ELSE c.selector[c.selectedIndex]

resetValue_NoRender(c) == dispatchEvent(setAttribute(c, "value", <<>>), <<>>)

resetValue(c) == setValue(c, <<>>)

setValueFromCombo(c) == setValue(c, selectorValue(c))

connectedCallback(c) ==
    LET c1 == IF ~hasAttribute(c, "value")
              THEN setAttribute(c, "value", <<>>) ELSE c
        c2 == IF ~hasAttribute(c1, "values")
              THEN setValues(c1, DefaultValues)
              ELSE setValues(c1, c1.attributes["values"])
        c3 == [c2 EXCEPT !.listeners = TRUE]
    IN  render(c3)

disconnectedCallback_KeepListeners(c) == c

disconnectedCallback(c) == [c EXCEPT !.listeners = FALSE]

----------------------------------------------------------------------------
(* The <rc-text-area/> component *)

\* The instance, with the store it works on, as a record for the methods below.
Area ==
    [attributes |-> areaAttributes, textarea |-> textarea, counter |-> counter,
     progress |-> progress, classes |-> classes, saved |-> saved,
     savedTimeouts |-> savedTimeouts, limitReachedFired |-> limitReachedFired,
     timeouts |-> timeouts, inputListener |-> inputListener,
     localStorage |-> localStorage, writes |-> writes,
     dispatched |-> <<>>, storageCalls |-> <<>>]

DefaultMaxChars == 280
\* '280'
DefaultMaxCharsText == <<"2", "8", "0">>

\* localStorage.getItem(key): null when there is no entry.
getItem(t, key) ==
    IF key \in DOMAIN t.localStorage THEN Some(t.localStorage[key]) ELSE Null

\* localStorage.setItem(key, text)
setItem_KeepExisting(t, key, text) ==
    [t EXCEPT !.localStorage =
                  [k \in DOMAIN t.localStorage \cup {key} |->
                      IF k \in DOMAIN t.localStorage THEN t.localStorage[k]
                      ELSE text],
              !.storageCalls = Append(@, "setItem"),
              !.writes = @ + 1]

setItem(t, key, text) ==
    [t EXCEPT !.localStorage =
                  [k \in DOMAIN t.localStorage \cup {key} |->
                      IF k = key THEN text ELSE t.localStorage[k]],
              !.storageCalls = Append(@, "setItem"),
              !.writes = @ + 1]

\* localStorage.removeItem(key)
removeItem(t, key) ==
    [t EXCEPT !.localStorage =
                  [k \in DOMAIN t.localStorage \ {key} |-> t.localStorage[k]],
              !.storageCalls = Append(@, "removeItem")]

\* get maxChars(): parseInt(this.getAttribute('max-chars')) || 280
maxChars_NoDefault(t) == parseInt(getAttribute(t, "max-chars")).n

maxChars(t) ==
    LET parsed == parseInt(getAttribute(t, "max-chars"))
    IN  IF parsed.nan \/ parsed.n = 0 THEN DefaultMaxChars ELSE parsed.n

\* get storageKey(): null when the attribute is absent
storageKey_Shared(t) == Some(<<"k">>)

storageKey(t) == getAttribute(t, "storage-key")

\* get charCount()
charCount(t) == Len(t.textarea)

\* get charsRemaining()
charsRemaining(t) == maxChars(t) - charCount(t)

\* _render(): the counter text, the width of the progress bar (count/max in
\* percent, at most 100, kept as the fraction num/den) and the state classes.
_render(t) ==
    LET count == charCount(t)
        max == maxChars(t)
        \* (count / max) * 100 >= p
        AtLeast(p) == IF max > 0 THEN count * 100 >= p * max
                      ELSE count * 100 <= p * max
        percentage == IF AtLeast(100) THEN [num |-> 100, den |-> 1]
                      ELSE [num |-> count * 100, den |-> max]
        state == IF AtLeast(100) THEN "danger"
                 ELSE IF AtLeast(80) THEN "warning" ELSE ""
        Toggled(classList) ==
            toggle(toggle(classList, "warning", state = "warning"),
                   "danger", state = "danger")
    IN  [t EXCEPT !.counter = [count |-> count, max |-> max],
                  \* style.width: a negative percentage is not a valid width
                  \* and leaves the declaration as it was
                  !.progress = IF percentage.num * percentage.den < 0
                               THEN t.progress
                               ELSE Some(percentage),
                  !.classes = [e \in DOMAIN t.classes |-> Toggled(t.classes[e])]]

\* _showSavedIndicator(): shown now, hidden by a timeout 1500 ms later.
_showSavedIndicator(t) ==
    [t EXCEPT !.saved = TRUE, !.savedTimeouts = @ + 1]

\* _saveToStorage() as written in the class: what the debounce timer runs.
_saveToStorage_Unguarded(t) ==
    _showSavedIndicator(setItem(t, OrEmpty(storageKey(t)), t.textarea))

_saveToStorage(t) ==
    IF Truthy(storageKey(t))
    THEN _showSavedIndicator(setItem(t, storageKey(t)[1], t.textarea))
    ELSE t

\* this._saveToStorage(), the function built by _debounce(fn, 500): the
\* pending timeout is cancelled and a new one is started.
_debounce_NoClear(t) ==
    [t EXCEPT !.timeouts = @ + 1, !.writes = 0]

_debounce(t) ==
    LET pending == IF t.timeouts > 0 THEN t.timeouts - 1 ELSE 0
    IN  [t EXCEPT !.timeouts = pending + 1, !.writes = 0]

\* The API value of a <textarea>: the platform hands back the assigned text
\* with every CRLF pair and every lone CR replaced by LF.
RECURSIVE normalizeNewlines(_)
normalizeNewlines(s) ==
    IF s = <<>> THEN <<>>
    ELSE IF Head(s) = "\r"
         THEN IF Len(s) > 1 /\ s[2] = "\n"
              THEN <<"\n">> \o normalizeNewlines(Tail(Tail(s)))
              ELSE <<"\n">> \o normalizeNewlines(Tail(s))
         ELSE <<Head(s)>> \o normalizeNewlines(Tail(s))

\* this.$textarea.value = text
setTextareaValue(t, text) == [t EXCEPT !.textarea = normalizeNewlines(text)]

\* _loadFromStorage()
_loadFromStorage_NoLoad(t) == t

_loadFromStorage(t) ==
    IF Truthy(storageKey(t))
    THEN LET stored == getItem(t, storageKey(t)[1])
             t1 == [t EXCEPT !.storageCalls = Append(@, "getItem")]
         IN  IF stored # Null THEN setTextareaValue(t1, stored[1]) ELSE t1
    ELSE t

\* attributeChangedCallback(name, oldValue, newValue) for the attributes
\* 'value', 'max-chars' and 'storage-key'.
attributeChangedCallback_NoRender(t, name, oldValue, newValue) ==
    IF oldValue = newValue THEN t
    ELSE IF name = "value"
         THEN IF newValue = Null \/ t.textarea # newValue[1]
              THEN Only({_render(t1) :
                         t1 \in {setTextareaValue(t, OrEmpty(newValue))}})
              ELSE t
         ELSE t

attributeChangedCallback(t, name, oldValue, newValue) ==
    IF oldValue = newValue THEN t
    ELSE IF name = "value"
         THEN IF newValue = Null \/ t.textarea # newValue[1]
              THEN Only({_render(t1) :
                         t1 \in {setTextareaValue(t, OrEmpty(newValue))}})
              ELSE t
         ELSE _render(t)

\* this.setAttribute(name, v) on an observed attribute: the platform calls
\* attributeChangedCallback with the old and the new text.
RcTextArea_setAttribute(t, name, v) ==
    Only({attributeChangedCallback(t1, name, getAttribute(t, name), Some(v)) :
          t1 \in {setAttribute(t, name, v)}})

\* set value(newValue)
RcTextArea_setValue_Truncated(t, newValue) ==
    LET text == OrEmpty(Some(newValue))
    IN  Only({_debounce(t3) :
              t3 \in {_render(t2) :
              t2 \in {RcTextArea_setAttribute(t1, "value", text) :
              t1 \in {setTextareaValue(t, slice(text, maxChars(t)))}}}})

RcTextArea_setValue_NoSave(t, newValue) ==
    LET text == OrEmpty(Some(newValue))
    IN  Only({_render(t2) :
              t2 \in {RcTextArea_setAttribute(t1, "value", text) :
              t1 \in {setTextareaValue(t, text)}}})

RcTextArea_setValue(t, newValue) ==
    LET text == OrEmpty(Some(newValue))
    IN  Only({_debounce(t3) :
              t3 \in {_render(t2) :
              t2 \in {RcTextArea_setAttribute(t1, "value", text) :
              t1 \in {setTextareaValue(t, text)}}}})

\* clear()
clear_NoRemove(t) == RcTextArea_setValue(t, <<>>)

clear(t) ==
    Only({IF Truthy(storageKey(t1)) THEN removeItem(t1, storageKey(t1)[1])
          ELSE t1 :
          t1 \in {RcTextArea_setValue(t, <<>>)}})

\* this.dispatchEvent(new CustomEvent(type, {detail, bubbles: true,
\* composed: true}))
RcTextArea_dispatchEvent(t, type, detail) ==
    [t EXCEPT !.dispatched =
        Append(@, CustomEvent(type, [detail |-> detail, bubbles |-> TRUE,
                                     composed |-> TRUE]))]

\* _handleInput(): the four steps of the handler.
Truncate(t) ==
    IF Len(t.textarea) > maxChars(t)
    THEN [t EXCEPT !.textarea = slice(t.textarea, maxChars(t))]
    ELSE t

DispatchInput(t) ==
    RcTextArea_dispatchEvent(t, "input",
        [value |-> t.textarea, charCount |-> charCount(t)])

DispatchLimitReached_NoReset(t) ==
    IF charCount(t) >= maxChars(t) /\ ~t.limitReachedFired
    THEN RcTextArea_dispatchEvent(
             [t EXCEPT !.limitReachedFired = TRUE], "limitReached",
             [value |-> t.textarea, maxChars |-> maxChars(t)])
    ELSE t

DispatchLimitReached(t) ==
    IF charCount(t) >= maxChars(t) /\ ~t.limitReachedFired
    THEN RcTextArea_dispatchEvent(
             [t EXCEPT !.limitReachedFired = TRUE], "limitReached",
             [value |-> t.textarea, maxChars |-> maxChars(t)])
    ELSE IF charCount(t) < maxChars(t)
         THEN [t EXCEPT !.limitReachedFired = FALSE]
         ELSE t

_handleInput_LimitFirst(t) ==
    Only({DispatchInput(t4) :
          t4 \in {DispatchLimitReached(t3) :
          t3 \in {_debounce(t2) :
          t2 \in {_render(t1) :
          t1 \in {Truncate(t)}}}}})

_handleInput(t) ==
    Only({DispatchLimitReached(t4) :
          t4 \in {DispatchInput(t3) :
          t3 \in {_debounce(t2) :
          t2 \in {_render(t1) :
          t1 \in {Truncate(t)}}}}})

\* connectedCallback()
RcTextArea_connectedCallback_KeepText(t) ==
    Only({_render(t3) :
          t3 \in {[t2 EXCEPT !.inputListener = TRUE] :
          t2 \in {IF t1.textarea = <<>> THEN _loadFromStorage(t1) ELSE t1 :
          t1 \in {IF ~hasAttribute(t, "max-chars")
                  THEN RcTextArea_setAttribute(t, "max-chars",
                                               DefaultMaxCharsText)
                  ELSE t}}}})

RcTextArea_connectedCallback(t) ==
    Only({_render(t3) :
          t3 \in {[t2 EXCEPT !.inputListener = TRUE] :
          t2 \in {_loadFromStorage(t1) :
          t1 \in {IF ~hasAttribute(t, "max-chars")
                  THEN RcTextArea_setAttribute(t, "max-chars",
                                               DefaultMaxCharsText)
                  ELSE t}}}})

\* disconnectedCallback()
RcTextArea_disconnectedCallback(t) == [t EXCEPT !.inputListener = FALSE]

----------------------------------------------------------------------------
(* State machine *)

Commit(c) ==
    /\ attributes' = c.attributes
    /\ infoView' = c.infoView
    /\ formView' = c.formView
    /\ valueInfo' = c.valueInfo
    /\ selector' = c.selector
    /\ selectedIndex' = c.selectedIndex
    /\ listeners' = c.listeners
    /\ dispatched' = c.dispatched
    /\ bubbled' = c.bubbled
    /\ UNCHANGED <<areaVars, otherVars>>

Record(op, arg) ==
    /\ lastOp' = [op |-> op, arg |-> arg]
    /\ pre' = [voted |-> getValue(Self) # <<>>,
               hasValue |-> hasAttribute(Self, "value"),
               hasValues |-> hasAttribute(Self, "values")]

\* new AgileVoting(): the template is cloned, nothing is rendered yet.
VotingConstructed ==
    /\ attributes = <<>>
    /\ infoView = ""
    /\ formView = ""
    /\ valueInfo = <<>>
    /\ selector = <<>>
    /\ selectedIndex = 0
    /\ listeners = FALSE
    /\ connected = FALSE
    /\ everConnected = FALSE
    /\ dispatched = <<>>
    /\ bubbled = <<>>
    /\ lastOp = [op |-> "new", arg |-> <<>>]
    /\ pre = [voted |-> FALSE, hasValue |-> FALSE, hasValues |-> FALSE]

\* new RcTextArea(): the template is cloned (its counter reads '0/280'),
\* nothing is rendered and the element has no attribute yet.
AreaConstructed ==
    /\ areaAttributes = <<>>
    /\ textarea = <<>>
    /\ counter = [count |-> 0, max |-> DefaultMaxChars]
    /\ progress = Null
    /\ classes = [e \in {"textarea", "progress", "counter"} |-> {}]
    /\ saved = FALSE
    /\ savedTimeouts = 0
    /\ limitReachedFired = FALSE
    /\ timeouts = 0
    /\ inputListener = FALSE
    /\ areaConnected = FALSE
    /\ areaDispatched = <<>>
    /\ storageCalls = <<>>
    /\ writes = 0
    /\ inputReached = FALSE
    /\ cleared = FALSE
    /\ areaLastOp = [op |-> "new", arg |-> <<>>]
    /\ areaPre = [inputReached |-> FALSE, cleared |-> FALSE, stored |-> FALSE]

\* new RcTextArea() for the second element
OtherConstructed ==
    /\ other = [attributes |-> <<>>, textarea |-> <<>>,
                counter |-> [count |-> 0, max |-> DefaultMaxChars],
                progress |-> Null,
                classes |-> [e \in {"textarea", "progress", "counter"} |-> {}],
                saved |-> FALSE, savedTimeouts |-> 0,
                limitReachedFired |-> FALSE, timeouts |-> 0,
                inputListener |-> FALSE, connected |-> FALSE]
    /\ actor = 1

EmptyStore == [k \in {} |-> <<>>]

\* The store a page starts with: empty, or holding a draft saved under 'k'
\* by an earlier session.
InitialStores ==
    {EmptyStore} \cup {[k \in {<<"k">>} |-> text] : text \in TextInputs}

Init ==
    /\ VotingConstructed
    /\ AreaConstructed
    /\ OtherConstructed
    /\ localStorage = EmptyStore

\* component.value = v
SetValue ==
    \E v \in ValueInputs :
        /\ Commit(setValue(Self, v))
        /\ Record("SetValue", v)
        /\ UNCHANGED <<connected, everConnected>>

\* component.setAttribute('value', v)
SetAttributeValue ==
    \E v \in ValueInputs :
        /\ Commit(setAttribute(Self, "value", v))
        /\ Record("SetAttributeValue", v)
        /\ UNCHANGED <<connected, everConnected>>

\* component.values = list
SetValues ==
    \E list \in ListInputs :
        /\ Commit(setValues(Self, list))
        /\ Record("SetValues", list)
        /\ UNCHANGED <<connected, everConnected>>

\* component.setAttribute('values', list)
SetAttributeValues ==
    \E list \in ListInputs :
        /\ Commit(setAttribute(Self, "values", list))
        /\ Record("SetAttributeValues", list)
        /\ UNCHANGED <<connected, everConnected>>

\* The element is inserted into a document.
Connect ==
    /\ ~connected
    /\ Commit(connectedCallback(Self))
    /\ connected' = TRUE
    /\ everConnected' = TRUE
    /\ Record("Connect", <<>>)

\* The element is removed from its document.
Disconnect ==
    /\ connected
    /\ Commit(disconnectedCallback(Self))
    /\ connected' = FALSE
    /\ Record("Disconnect", <<>>)
    /\ UNCHANGED everConnected

\* The user picks the i-th option of the selector.
SelectOption ==
    \E i \in 1..Len(selector) :
        /\ Commit([Self EXCEPT !.selectedIndex = i])
        /\ Record("SelectOption", selector[i])
        /\ UNCHANGED <<connected, everConnected>>

\* click on #setValue
ClickSet ==
    /\ Commit(IF listeners THEN setValueFromCombo(Self) ELSE Self)
    /\ Record("ClickSet", selectorValue(Self))
    /\ UNCHANGED <<connected, everConnected>>

\* click on #reset
ClickReset ==
    /\ Commit(IF listeners THEN resetValue(Self) ELSE Self)
    /\ Record("ClickReset", <<>>)
    /\ UNCHANGED <<connected, everConnected>>

Next ==
    \/ SetValue
    \/ SetAttributeValue
    \/ SetValues
    \/ SetAttributeValues
    \/ Connect
    \/ Disconnect
    \/ SelectOption
    \/ ClickSet
    \/ ClickReset

Spec == Init /\ [][Next]_vars

TypeOK ==
    /\ DOMAIN attributes \subseteq {"value", "values"}
    /\ infoView \in {"", "flex", "none"}
    /\ formView \in {"", "flex", "none"}
    /\ selectedIndex \in 0..Len(selector)
    /\ listeners = connected

----------------------------------------------------------------------------
(* State machine of <rc-text-area/> *)

\* The instance after a handler has run becomes the state.
AreaCommit(after) ==
    \E t \in {after} :
        /\ areaAttributes' = t.attributes
        /\ textarea' = t.textarea
        /\ counter' = t.counter
        /\ progress' = t.progress
        /\ classes' = t.classes
        /\ saved' = t.saved
        /\ savedTimeouts' = t.savedTimeouts
        /\ limitReachedFired' = t.limitReachedFired
        /\ timeouts' = t.timeouts
        /\ inputListener' = t.inputListener
        /\ localStorage' = t.localStorage
        /\ areaDispatched' = t.dispatched
        /\ storageCalls' = t.storageCalls
        /\ writes' = t.writes
        /\ actor' = 1
        /\ UNCHANGED <<votingVars, other>>

AreaRecord(op, arg) ==
    /\ areaLastOp' = [op |-> op, arg |-> arg]
    /\ areaPre' = [inputReached |-> inputReached, cleared |-> cleared,
                   stored |-> localStorage # EmptyStore]

InitTextArea ==
    /\ VotingConstructed
    /\ AreaConstructed
    /\ OtherConstructed
    /\ localStorage \in InitialStores

\* The user edits the text of the inner <textarea> of a connected element
\* into `text`; the control dispatches 'input' and _handleInput runs when it
\* is registered.
TypeOf(texts) ==
    \E text \in texts :
        \E t \in {IF inputListener
                  THEN _handleInput([Area EXCEPT !.textarea = text])
                  ELSE [Area EXCEPT !.textarea = text]} :
            /\ areaConnected
            /\ AreaCommit(t)
            /\ inputReached' = IF inputListener
                               THEN charCount(t) >= maxChars(t)
                               ELSE inputReached
            /\ cleared' = (cleared /\ ~inputListener)
            /\ AreaRecord("Type", text)
            /\ UNCHANGED areaConnected

Type == TypeOf(TextInputs)

\* component.value = text
AssignValueOf(texts) ==
    \E text \in texts :
        /\ AreaCommit(RcTextArea_setValue(Area, text))
        /\ AreaRecord("AssignValue", text)
        /\ UNCHANGED <<areaConnected, inputReached, cleared>>

AssignValue == AssignValueOf(TextInputs)

\* component.setAttribute('value', text)
SetValueAttributeOf(texts) ==
    \E text \in texts :
        /\ AreaCommit(RcTextArea_setAttribute(Area, "value", text))
        /\ AreaRecord("SetValueAttribute", text)
        /\ UNCHANGED <<areaConnected, inputReached, cleared>>

SetValueAttribute == SetValueAttributeOf(TextInputs)

\* component.setAttribute('max-chars', text), component.maxChars = n
SetMaxCharsOf(texts) ==
    \E text \in texts :
        /\ AreaCommit(RcTextArea_setAttribute(Area, "max-chars", text))
        /\ AreaRecord("SetMaxChars", text)
        /\ UNCHANGED <<areaConnected, inputReached, cleared>>

SetMaxChars == SetMaxCharsOf(MaxCharsInputs)

\* component.setAttribute('storage-key', text)
SetStorageKey ==
    \E text \in StorageKeyInputs :
        /\ AreaCommit(RcTextArea_setAttribute(Area, "storage-key", text))
        /\ AreaRecord("SetStorageKey", text)
        /\ UNCHANGED <<areaConnected, inputReached, cleared>>

\* The element is inserted into a document.
AreaConnect ==
    /\ ~areaConnected
    /\ AreaCommit(RcTextArea_connectedCallback(Area))
    /\ areaConnected' = TRUE
    /\ AreaRecord("Connect", <<>>)
    /\ UNCHANGED <<inputReached, cleared>>

\* The element is removed from its document.
AreaDisconnect ==
    /\ areaConnected
    /\ AreaCommit(RcTextArea_disconnectedCallback(Area))
    /\ areaConnected' = FALSE
    /\ AreaRecord("Disconnect", <<>>)
    /\ UNCHANGED <<inputReached, cleared>>

\* component.clear()
Clear ==
    /\ AreaCommit(clear(Area))
    /\ cleared' = TRUE
    /\ AreaRecord("Clear", <<>>)
    /\ UNCHANGED <<areaConnected, inputReached>>

\* The debounce timeout expires: _saveToStorage runs.
SaveTimeout ==
    /\ timeouts > 0
    /\ savedTimeouts < MaxSavedTimeouts
    /\ AreaCommit(_saveToStorage([Area EXCEPT !.timeouts = @ - 1]))
    /\ AreaRecord("SaveTimeout", <<>>)
    /\ UNCHANGED <<areaConnected, inputReached, cleared>>

\* A timeout of _showSavedIndicator expires: the indicator is hidden.
SavedTimeout ==
    /\ savedTimeouts > 0
    /\ AreaCommit([Area EXCEPT !.saved = FALSE, !.savedTimeouts = @ - 1])
    /\ AreaRecord("SavedTimeout", <<>>)
    /\ UNCHANGED <<areaConnected, inputReached, cleared>>

NextTextArea ==
    \/ Type
    \/ AssignValue
    \/ SetValueAttribute
    \/ SetMaxChars
    \/ SetStorageKey
    \/ AreaConnect
    \/ AreaDisconnect
    \/ Clear
    \/ SaveTimeout
    \/ SavedTimeout

SpecTextArea == InitTextArea /\ [][NextTextArea]_vars

AreaTypeOK ==
    /\ DOMAIN areaAttributes \subseteq {"value", "max-chars", "storage-key"}
    /\ textarea \in TextInputs
    /\ timeouts \in 0..1
    /\ savedTimeouts \in 0..MaxSavedTimeouts
    /\ inputListener = areaConnected
    /\ DOMAIN localStorage \subseteq {<<"k">>}

----------------------------------------------------------------------------
(* The text area around its limit: a limit of 5 characters, texts of up to
   one character more than the limit, and texts with carriage returns given
   to the value property.  No storage key is set. *)

MaxRenderTextLen == 6
RenderTexts == {TypedText(n) : n \in 0..MaxRenderTextLen}

\* Texts with a carriage return: '\r' and '\r\n'.
CarriageReturnTexts == {<<"\r">>, <<"\r", "\n">>}

\* Values given to the max-chars attribute: '5' and '-1'.
RenderMaxCharsInputs == {<<"5">>, <<"-", "1">>}

RenderType == TypeOf(RenderTexts)

RenderAssignValue == AssignValueOf(RenderTexts \cup CarriageReturnTexts)

RenderSetValueAttribute == SetValueAttributeOf(RenderTexts)

RenderSetMaxChars == SetMaxCharsOf(RenderMaxCharsInputs)

NextRender ==
    \/ RenderType
    \/ RenderAssignValue
    \/ RenderSetValueAttribute
    \/ RenderSetMaxChars
    \/ AreaConnect
    \/ AreaDisconnect
    \/ Clear
    \/ SaveTimeout

SpecRender == Init /\ [][NextRender]_vars

----------------------------------------------------------------------------
(* Two text areas on one page, the first with storage key 'k' and the second
   with storage key 'j', sharing the browser's store. *)

\* The texts typed into the first and into the second text area.
FirstTexts == {<<"a">>}
OtherTexts == {<<"c">>}

\* Value given to the storage-key attribute of the second text area: 'j'.
OtherStorageKeyInputs == {<<"j">>}

\* The second element as the receiver of a method call.
OtherArea ==
    [attributes |-> other.attributes, textarea |-> other.textarea,
     counter |-> other.counter, progress |-> other.progress,
     classes |-> other.classes, saved |-> other.saved,
     savedTimeouts |-> other.savedTimeouts,
     limitReachedFired |-> other.limitReachedFired,
     timeouts |-> other.timeouts, inputListener |-> other.inputListener,
     localStorage |-> localStorage, writes |-> 0,
     dispatched |-> <<>>, storageCalls |-> <<>>]

OtherCommit(after, isConnected) ==
    \E t \in {after} :
        /\ other' = [attributes |-> t.attributes, textarea |-> t.textarea,
                     counter |-> t.counter, progress |-> t.progress,
                     classes |-> t.classes, saved |-> t.saved,
                     savedTimeouts |-> t.savedTimeouts,
                     limitReachedFired |-> t.limitReachedFired,
                     timeouts |-> t.timeouts,
                     inputListener |-> t.inputListener,
                     connected |-> isConnected]
        /\ localStorage' = t.localStorage
        /\ actor' = 2
        /\ UNCHANGED <<votingVars, areaAttributes, textarea, counter, progress,
                       classes, saved, savedTimeouts, limitReachedFired,
                       timeouts, inputListener, areaConnected, areaDispatched,
                       storageCalls, writes, inputReached, cleared,
                       areaLastOp, areaPre>>

FirstType == TypeOf(FirstTexts)

\* The user edits the text of the second text area.
OtherType ==
    \E text \in OtherTexts :
        /\ other.connected
        /\ OtherCommit(IF other.inputListener
                       THEN _handleInput([OtherArea EXCEPT !.textarea = text])
                       ELSE [OtherArea EXCEPT !.textarea = text], TRUE)

\* second.setAttribute('storage-key', text)
OtherSetStorageKeyOf(keys) ==
    \E text \in keys :
        OtherCommit(RcTextArea_setAttribute(OtherArea, "storage-key", text),
                    other.connected)

OtherSetStorageKey == OtherSetStorageKeyOf(OtherStorageKeyInputs)

\* The second element is inserted into the document.
OtherConnect ==
    /\ ~other.connected
    /\ OtherCommit(RcTextArea_connectedCallback(OtherArea), TRUE)

\* second.clear()
OtherClear == OtherCommit(clear(OtherArea), other.connected)

\* The debounce timeout of the second element expires.
OtherSaveTimeout ==
    /\ other.timeouts > 0
    /\ other.savedTimeouts < MaxSavedTimeouts
    /\ OtherCommit(_saveToStorage([OtherArea EXCEPT !.timeouts = @ - 1]),
                   other.connected)

\* A timeout of _showSavedIndicator of the second element expires.
OtherSavedTimeout ==
    /\ other.savedTimeouts > 0
    /\ OtherCommit([OtherArea EXCEPT !.saved = FALSE,
                                     !.savedTimeouts = @ - 1],
                   other.connected)

NextTwoAreas ==
    \/ FirstType
    \/ SetStorageKey
    \/ AreaConnect
    \/ Clear
    \/ SaveTimeout
    \/ SavedTimeout
    \/ OtherType
    \/ OtherSetStorageKey
    \/ OtherConnect
    \/ OtherClear
    \/ OtherSaveTimeout
    \/ OtherSavedTimeout

SpecTwoAreas == Init /\ [][NextTwoAreas]_vars

\* Two text areas on one page that were both given the storage key 'k'.
SharedSetStorageKey == OtherSetStorageKeyOf(StorageKeyInputs)

NextSharedKey ==
    \/ FirstType
    \/ SetStorageKey
    \/ AreaConnect
    \/ Clear
    \/ SaveTimeout
    \/ SavedTimeout
    \/ OtherType
    \/ SharedSetStorageKey
    \/ OtherConnect
    \/ OtherClear
    \/ OtherSaveTimeout
    \/ OtherSavedTimeout

SpecSharedKey == Init /\ [][NextSharedKey]_vars

----------------------------------------------------------------------------
(* Claims *)

value == getValue(Self)

InfoShown == Visible(infoView) /\ ~Visible(formView)
FormShown == Visible(formView) /\ ~Visible(infoView)

Str_XS == <<"X", "S">>
Str_S == <<"S">>
Str_M == <<"M">>
Str_L == <<"L">>
Str_XL == <<"X", "L">>

\* The entries of a list written back with commas between them.
RECURSIVE join(_)
join(list) ==
    IF Len(list) = 0 THEN <<>>
    ELSE IF Len(list) = 1 THEN list[1]
    ELSE list[1] \o <<",">> \o join(Tail(list))

\* String.prototype.trim for the blanks of the model.
RECURSIVE trimStart(_), trimEnd(_)
trimStart(s) ==
    IF s # <<>> /\ Head(s) = " " THEN trimStart(Tail(s)) ELSE s
trimEnd(s) ==
    IF s # <<>> /\ s[Len(s)] = " " THEN trimEnd(SubSeq(s, 1, Len(s) - 1)) ELSE s
trim(s) == trimEnd(trimStart(s))

\* C1: in every reachable state exactly one of the info view and the form
\* view is visible, and it is the info view exactly when value != "".
C1_ExactlyOneViewMatchesValue ==
    /\ Visible(infoView) # Visible(formView)
    /\ Visible(infoView) <=> (value # <<>>)

\* C2: an operation dispatches valueChanged only if it leaves a value that
\* differs from the value held before it.
C2_NotifiedOnlyOnChange ==
    [][dispatched' # <<>> => value' # value]_vars

\* C3: after a connection without a `values` attribute the options are
\* exactly XS, S, M, L, XL, in that order.
C3_DefaultOptionsAreFive ==
    (lastOp.op = "Connect" /\ ~pre.hasValues)
        => selector = <<Str_XS, Str_S, Str_M, Str_L, Str_XL>>

\* C4: on a connected, unvoted instance, confirming the selected choice c
\* leaves value = c, the info view shown alone, the info text equal to c and
\* exactly one valueChanged notification, carrying c.
C4_ConfirmVotesForChoice ==
    (lastOp.op = "ClickSet" /\ connected /\ ~pre.voted /\ selectedIndex >= 1)
        => /\ lastOp.arg = selector[selectedIndex]
           /\ value = lastOp.arg
           /\ InfoShown
           /\ valueInfo = lastOp.arg
           /\ dispatched = <<lastOp.arg>>

\* C5: on a connected, voted instance, a click on the reset control leaves
\* value = "", the form view visible and the info view hidden.
C5_ResetReturnsToForm ==
    (lastOp.op = "ClickReset" /\ connected /\ pre.voted)
        => value = <<>> /\ FormShown

C5_Witness ==
    /\ lastOp.op = "ClickReset" /\ connected /\ pre.voted
    /\ value = <<>> /\ formView = "flex" /\ infoView = "none"

\* C6: right after connection the instance is unvoted with the form shown
\* when no `value` attribute was pre-set, and voted with the info view shown
\* and the attribute as its text when a non-empty one was; the connection
\* dispatches no valueChanged.
C6_InitialStateOnConnection ==
    lastOp.op = "Connect"
        => /\ dispatched = <<>>
           /\ ~pre.hasValue => (value = <<>> /\ FormShown)
           /\ (pre.hasValue /\ attributes["value"] # <<>>)
                => /\ value = attributes["value"]
                   /\ InfoShown
                   /\ valueInfo = attributes["value"]

\* C7: after `value = v`, reading value returns exactly v and the info
\* view's text equals v, for every string v and in every state.
C7_ValueRoundTrip ==
    lastOp.op = "SetValue" => (value = lastOp.arg /\ valueInfo = lastOp.arg)

\* C8: on an instance that was never connected, value reads "" before any
\* assignment, and setting a non-empty value stores it, shows it as the info
\* text and dispatches valueChanged with it.
C8_UsableUnattached ==
    ~everConnected
        => /\ ~hasAttribute(Self, "value") => value = <<>>
           /\ (lastOp.op = "SetValue" /\ lastOp.arg # <<>>)
                => /\ value = lastOp.arg
                   /\ valueInfo = lastOp.arg
                   /\ dispatched = <<lastOp.arg>>

\* C9: after `values` is set, through the setter or through the attribute
\* present at connection, the options are exactly the comma-separated
\* entries of the new list, in order: joined with commas they give the list
\* back, none holds a comma, and nothing of an earlier list is left.
C9_ValuesReplaceOptions ==
    LET list == IF lastOp.op = "SetValues" THEN lastOp.arg
                ELSE attributes["values"]
    IN  (lastOp.op = "SetValues" \/ (lastOp.op = "Connect" /\ pre.hasValues))
            => /\ Len(selector) >= 1
               /\ \A i \in 1..Len(selector) :
                     \A k \in 1..Len(selector[i]) : selector[i][k] # ","
               /\ join(selector) = list

C9_Witness ==
    /\ lastOp.op = "SetValues" /\ everConnected
    /\ lastOp.arg = <<",">>
    /\ selector = <<<<>>, <<>>>>

\* C10: every entry of the `values` list is trimmed before use: the options
\* carry no surrounding blank, and confirming one sets a value without one.
C10_EntriesTrimmed ==
    /\ (lastOp.op = "SetValues" \/ lastOp.op = "Connect")
          => \A i \in 1..Len(selector) : selector[i] = trim(selector[i])
    /\ (lastOp.op = "ClickSet" /\ connected) => value = trim(value)

\* C11: every valueChanged notification is a bubbling event: what a listener
\* registered on an ancestor of the connected element observes during an
\* operation is exactly what the element dispatched.
C11_NotificationsBubble ==
    connected => bubbled = dispatched

----------------------------------------------------------------------------
(* Claims about <rc-text-area/> *)

\* The storage key in use: 'k' when the storage-key attribute names it.
Keyed == Truthy(storageKey(Area))
Key == storageKey(Area)[1]
LimitReachedCount ==
    Cardinality({i \in 1..Len(areaDispatched) :
                    areaDispatched[i].type = "limitReached"})

\* C12: after a handled input of a text longer than maxChars the value is
\* exactly the first maxChars characters of that text, and a text of at most
\* maxChars characters is left as typed.
C12_InputTruncatedToMaxChars ==
    (areaLastOp.op = "Type" /\ inputListener)
        => LET typed == areaLastOp.arg
               max == maxChars(Area)
           IN  IF Len(typed) > max
               THEN /\ Len(textarea) = max
                    /\ textarea = SubSeq(typed, 1, max)
               ELSE textarea = typed

\* C13: in every reachable state the displayed value is at most maxChars
\* characters long, and so is every text the component writes to the store.
C13_LengthNeverExceedsMaxChars ==
    /\ Len(textarea) <= maxChars(Area)
    /\ (areaLastOp.op = "SaveTimeout" /\ storageCalls = <<"setItem">>)
           => Len(localStorage[Key]) <= maxChars(Area)

C15_ClearResetsLimitDetector ==
    (areaLastOp.op = "Type" /\ inputListener /\ areaPre.cleared
     /\ Len(textarea) >= maxChars(Area))
        => LimitReachedCount = 1

\* C16: when clear() returns the value is "" and, with a storage key, the
\* store holds no entry under the key.
C16_ClearEmptiesValueAndStore ==
    areaLastOp.op = "Clear"
        => /\ textarea = <<>>
           /\ Keyed => Key \notin DOMAIN localStorage

\* clear() on a keyed instance whose draft was in the store.
C16_Witness ==
    /\ areaLastOp.op = "Clear"
    /\ Keyed /\ areaPre.stored
    /\ storageCalls = <<"removeItem">>
    /\ localStorage = EmptyStore

\* C17: inputs write nothing themselves and leave one pending timer however
\* many came before; when the timer fires on a keyed instance it performs
\* the one write since it was armed, of the value held at that moment.
C17_BurstWritesOnceTheLastValue ==
    /\ timeouts <= 1
    /\ writes <= 1
    /\ (areaLastOp.op = "Type" /\ inputListener)
           => storageCalls = <<>> /\ timeouts = 1 /\ writes = 0
    /\ (areaLastOp.op = "SaveTimeout" /\ Keyed)
           => /\ storageCalls = <<"setItem">>
              /\ localStorage[Key] = textarea
              /\ writes = 1
              /\ timeouts = 0

\* The timer fires on a keyed instance holding a typed text.
C17_Witness ==
    /\ areaLastOp.op = "SaveTimeout" /\ Keyed
    /\ textarea # <<>>
    /\ localStorage[Key] = textarea
    /\ writes = 1

C19_NoKeyNoStoreAccess ==
    ~hasAttribute(Area, "storage-key") => storageCalls = <<>>

\* The debounce timer fires on an instance without a key that holds a text.
C19_Witness ==
    /\ ~hasAttribute(Area, "storage-key")
    /\ areaLastOp.op = "SaveTimeout"
    /\ textarea # <<>>
    /\ storageCalls = <<>>

\* The integer a numeral denotes, read digit by digit from the right.
DecimalDigit ==
    [ch \in {"0", "1", "2", "3", "4", "5", "6", "7", "8", "9"} |->
        CASE ch = "0" -> 0 [] ch = "1" -> 1 [] ch = "2" -> 2 [] ch = "3" -> 3
          [] ch = "4" -> 4 [] ch = "5" -> 5 [] ch = "6" -> 6 [] ch = "7" -> 7
          [] ch = "8" -> 8 [] ch = "9" -> 9]
IsNumeral(s) ==
    LET digits == IF s # <<>> /\ Head(s) = "-" THEN Tail(s) ELSE s
    IN  digits # <<>> /\ \A i \in 1..Len(digits) : digits[i] \in DOMAIN DecimalDigit
RECURSIVE NaturalOf(_)
NaturalOf(digits) ==
    IF digits = <<>> THEN 0
    ELSE NaturalOf(SubSeq(digits, 1, Len(digits) - 1)) * 10
             + DecimalDigit[digits[Len(digits)]]
IntegerOf(s) == IF Head(s) = "-" THEN 0 - NaturalOf(Tail(s)) ELSE NaturalOf(s)
MaxCharsAttributeIsNumeral ==
    hasAttribute(Area, "max-chars") /\ IsNumeral(areaAttributes["max-chars"])

\* C20 as stated: maxChars is the integer written in the max-chars
\* attribute when the attribute is a numeral, and 280 when it is absent or
\* not a number.
C20_MaxCharsIsParsedOrDefault ==
    maxChars(Area) = IF MaxCharsAttributeIsNumeral
                     THEN IntegerOf(areaAttributes["max-chars"])
                     ELSE DefaultMaxChars

\* C20, amended: maxChars is the integer written in the max-chars attribute
\* when the attribute is a numeral other than zero, and 280 when it is
\* absent, not a number, or zero.
C20_MaxCharsIsNonZeroParsedOrDefault ==
    maxChars(Area) =
        IF MaxCharsAttributeIsNumeral
           /\ IntegerOf(areaAttributes["max-chars"]) # 0
        THEN IntegerOf(areaAttributes["max-chars"])
        ELSE DefaultMaxChars

\* max-chars="0" has just been set: maxChars reads 280.
C20_Witness ==
    /\ areaLastOp = [op |-> "SetMaxChars", arg |-> <<"0">>]
    /\ maxChars(Area) = DefaultMaxChars

\* C21: maxChars is at least 1 in every reachable state, whatever the
\* max-chars attribute holds.
C21_MaxCharsAtLeastOne ==
    maxChars(Area) >= 1

InputEvents ==
    {i \in 1..Len(areaDispatched) : areaDispatched[i].type = "input"}

\* C23: a handled input dispatches exactly one `input` event; its payload
\* holds the value left after truncation and that value's length, which is
\* at most maxChars.
C23_OneInputEventWithTruncatedValue ==
    (areaLastOp.op = "Type" /\ inputListener)
        => /\ Cardinality(InputEvents) = 1
           /\ \A i \in InputEvents :
                  /\ areaDispatched[i].detail.value = textarea
                  /\ areaDispatched[i].detail.charCount = Len(textarea)
                  /\ areaDispatched[i].detail.charCount <= maxChars(Area)

\* C24: charsRemaining is maxChars - charCount and is never negative.
C24_CharsRemainingNeverNegative ==
    /\ charsRemaining(Area) = maxChars(Area) - Len(textarea)
    /\ charsRemaining(Area) >= 0

\* C26: a debounce timer that fires right after the instance was
\* disconnected writes nothing to the store.
C26_NoWriteAfterDisconnect ==
    [][(areaLastOp.op = "Disconnect" /\ areaLastOp'.op = "SaveTimeout")
          => storageCalls' = <<>>]_vars

\* C29: on a connected instance a direct set of the `value` attribute leaves
\* the info text and the visible view matching the new value, and a direct
\* set of the `values` attribute leaves the options equal to its entries.
C29_AttributeSetsAreRendered ==
    /\ (connected /\ lastOp.op = "SetAttributeValue")
           => /\ valueInfo = value
              /\ IF value # <<>> THEN InfoShown ELSE FormShown
    /\ (connected /\ lastOp.op = "SetAttributeValues")
           => selector = split(getValues(Self))

\* C30: when the first thing to happen after clear() on a keyed instance is
\* the firing of the debounce timer, the store still has no entry under the
\* key.
C30_EntryStaysAbsentAfterClear ==
    [][(areaLastOp.op = "Clear" /\ Keyed /\ areaLastOp'.op = "SaveTimeout")
          => Key \notin DOMAIN localStorage']_vars

\* The state class the description gives to a count: danger from the
\* limit on, warning from 80% of the limit up to the limit, none below.
DescribedState ==
    IF Len(textarea) >= maxChars(Area) THEN "danger"
    ELSE IF Len(textarea) * 100 >= 80 * maxChars(Area) THEN "warning"
    ELSE ""

StateClasses(state) == IF state = "" THEN {} ELSE {state}

\* C22: the text control, the counter and the progress element carry the
\* same state class, which is danger when the count has reached the limit,
\* warning when it has reached 80% of the limit but not the limit, and no
\* class otherwise; warning and danger are never shown together.
C22_OneVisualState ==
    \A e \in DOMAIN classes :
        /\ classes[e] = StateClasses(DescribedState)
        /\ ~ {"warning", "danger"} \subseteq classes[e]

\* C28: once rendered, the width of the progress bar is
\* min(count / max, 1) * 100 percent, it never exceeds 100 percent, and the
\* counter shows count/max.
C28_ProgressWidthAndCounter ==
    /\ counter = [count |-> Len(textarea), max |-> maxChars(Area)]
    /\ progress # Null =>
           LET width == progress[1]
               count == Len(textarea)
               max == maxChars(Area)
           IN  /\ IF count >= max /\ max > 0
                  THEN width.num = 100 * width.den
                  ELSE width.num * max = count * 100 * width.den
               /\ IF width.den > 0 THEN width.num <= 100 * width.den
                                   ELSE width.num >= 100 * width.den

\* C25 as stated: component.value = v leaves the text control holding v for
\* every string v, with the counter re-rendered to len(v)/maxChars and
\* without an 'input' or 'limitReached' notification.
C25_AssignedValueIsKept ==
    areaLastOp.op = "AssignValue"
        => /\ textarea = areaLastOp.arg
           /\ counter = [count |-> Len(areaLastOp.arg), max |-> maxChars(Area)]
           /\ areaDispatched = <<>>

\* C25 amended: component.value = v leaves the text control holding v for
\* every string v without a carriage return, however long; the counter is
\* re-rendered to the length of the held text over maxChars and no 'input'
\* or 'limitReached' notification is dispatched.
C25_AssignedValueIsKeptWithoutCarriageReturn ==
    areaLastOp.op = "AssignValue"
        => /\ (\A i \in DOMAIN areaLastOp.arg : areaLastOp.arg[i] # "\r")
                  => textarea = areaLastOp.arg
           /\ counter = [count |-> Len(textarea), max |-> maxChars(Area)]
           /\ areaDispatched = <<>>

\* A text longer than a positive limit was assigned and is held in full.
C25_Witness ==
    /\ areaLastOp.op = "AssignValue"
    /\ maxChars(Area) >= 1
    /\ Len(areaLastOp.arg) > maxChars(Area)
    /\ textarea = areaLastOp.arg

\* The entry of the store under `key`, Null when there is none.
StoreEntry(key) ==
    IF key \in DOMAIN localStorage THEN Some(localStorage[key]) ELSE Null

\* C27: with two text areas using the storage keys 'k' and 'j', the entry
\* under a key is written or deleted only by a step of the text area that
\* uses this key, and a written entry is the text that text area holds.
C27_EntriesBelongToTheirInstance ==
    [][/\ StoreEntry(<<"k">>)' # StoreEntry(<<"k">>)
              => /\ actor' = 1
                 /\ StoreEntry(<<"k">>)' \in {Null, Some(textarea')}
       /\ StoreEntry(<<"j">>)' # StoreEntry(<<"j">>)
              => /\ actor' = 2
                 /\ StoreEntry(<<"j">>)' \in {Null, Some(other'.textarea)}]_vars

\* Both text areas have written their own text under their own key.
C27_Witness ==
    /\ StoreEntry(<<"k">>) = Some(<<"a">>)
    /\ StoreEntry(<<"j">>) = Some(<<"c">>)
    /\ getAttribute(Area, "storage-key") = Some(<<"k">>)
    /\ getAttribute(OtherArea, "storage-key") = Some(<<"j">>)

\* C31: on a connected voting component the option list is never empty; a
\* connection with the values attribute absent or empty fills it with the
\* built-in default list, so there is always a non-empty choice to confirm.
C31_OptionsNeverEmptyAfterConnection ==
    /\ connected => Len(selector) >= 1
    /\ (lastOp.op = "Connect" /\ (~pre.hasValues \/ getValues(Self) = <<>>))
           => /\ selector = split(DefaultValues)
              /\ \E i \in 1..Len(selector) : selector[i] # <<>>

Clicks == {"ClickSet", "ClickReset"}

\* C32: a click on the confirm or reset control of a voting component that
\* is not connected (never connected, or disconnected) changes neither the
\* attributes nor the views nor the info text and dispatches nothing; a
\* click on a connected one is handled exactly once: one notification.
C32_ClicksHandledOnlyWhileConnected ==
    [][lastOp'.op \in Clicks
          => IF connected
             THEN Len(dispatched') = 1 /\ getValue(Self)' = lastOp'.arg
             ELSE /\ dispatched' = <<>>
                  /\ UNCHANGED <<attributes, infoView, formView, valueInfo,
                                 selector, selectedIndex>>]_vars

\* A click on the confirm control of a component that was connected and is
\* disconnected, with a choice selected: nothing is dispatched.
C32_Witness ==
    /\ lastOp.op = "ClickSet"
    /\ lastOp.arg # <<>>
    /\ everConnected /\ ~connected
    /\ dispatched = <<>>
    /\ value # lastOp.arg

\* C33: connecting a voting component that was connected before leaves
\* value, the values attribute, the option list, the selected option and
\* the visible view as they were and dispatches no notification.
C33_ReconnectionChangesNothing ==
    [][(lastOp'.op = "Connect" /\ connected' /\ ~connected /\ everConnected)
          => /\ getValue(Self)' = getValue(Self)
             /\ getValues(Self)' = getValues(Self)
             /\ selector' = selector
             /\ selectedIndex' = selectedIndex
             /\ UNCHANGED <<infoView, formView>>
             /\ dispatched' = <<>>]_vars

\* C34: when a valueChanged listener runs, value is the payload, the info
\* text is the payload and the visible view matches the payload.
C34_ListenerSeesRenderedValue ==
    \A i \in 1..Len(dispatched) :
        /\ value = dispatched[i]
        /\ valueInfo = dispatched[i]
        /\ IF dispatched[i] # <<>> THEN InfoShown ELSE FormShown

\* C35: the notifications of one handled input carry the text left in the
\* control after truncation, the counter shows the length of that text, and
\* a limitReached notification comes after the input notification of the
\* same input with the payload {value, maxChars}, length(value) >= maxChars.
C35_InputThenLimitReached ==
    (areaLastOp.op = "Type" /\ inputListener)
        => \A i \in DOMAIN areaDispatched :
               /\ areaDispatched[i].detail.value = textarea
               /\ counter.count = Len(areaDispatched[i].detail.value)
               /\ areaDispatched[i].type = "limitReached"
                      => /\ areaDispatched[i].detail.maxChars = maxChars(Area)
                         /\ Len(areaDispatched[i].detail.value)
                                >= areaDispatched[i].detail.maxChars
                         /\ \E j \in 1..(i - 1) :
                                areaDispatched[j].type = "input"

\* A text longer than the limit of 5 was typed: input, then limitReached,
\* both with the first 5 characters.
C35_Witness ==
    /\ areaLastOp.op = "Type"
    /\ maxChars(Area) = 5
    /\ Len(areaLastOp.arg) > 5
    /\ Len(areaDispatched) = 2
    /\ areaDispatched[1].type = "input"
    /\ areaDispatched[2].type = "limitReached"
    /\ areaDispatched[2].detail.value = SubSeq(areaLastOp.arg, 1, 5)

\* Both text areas carry the storage key 'k'.
BothKeyed ==
    /\ getAttribute(Area, "storage-key") = Some(<<"k">>)
    /\ getAttribute(OtherArea, "storage-key") = Some(<<"k">>)

\* The step is the expiry of the debounce timeout of the first, of the
\* second text area.
FirstTimerFires == actor' = 1 /\ timeouts' < timeouts
OtherTimerFires == actor' = 2 /\ other'.timeouts < other.timeouts

\* C36: with two text areas sharing the storage key 'k', a debounce timeout
\* that expires replaces the entry under 'k' by the text its text area holds
\* (the last write wins); the entry changes to a text in no other step, and
\* it is deleted only by a text area whose debounce timeout is then pending.
C36_LastWriteWins ==
    [][BothKeyed /\ BothKeyed'
          => /\ FirstTimerFires => StoreEntry(<<"k">>)' = Some(textarea)
             /\ OtherTimerFires => StoreEntry(<<"k">>)' = Some(other.textarea)
             /\ StoreEntry(<<"k">>)' # StoreEntry(<<"k">>)
                    => \/ FirstTimerFires
                       \/ OtherTimerFires
                       \/ /\ StoreEntry(<<"k">>)' = Null
                          /\ IF actor' = 1 THEN timeouts' > 0
                                           ELSE other'.timeouts > 0]_vars

\* No timeout is pending, the second text area wrote last: the entry is its
\* text and not the text of the first.
C36_Witness ==
    /\ BothKeyed
    /\ timeouts = 0 /\ other.timeouts = 0
    /\ actor = 2
    /\ textarea = <<"a">>
    /\ other.textarea = <<"c">>
    /\ writes > 0
    /\ StoreEntry(<<"k">>) = Some(<<"c">>)

\* C37: the counter of the text area shows charCount/maxChars for the text
\* the control holds and the max-chars attribute the element carries,
\* whichever operation changed one of them last.
C37_CounterShowsCountAndMax ==
    /\ counter.count = charCount(Area)
    /\ counter.max = maxChars(Area)

\* The limit of a connected text area holding a text was changed to 1.
C37_Witness ==
    /\ areaLastOp.op = "SetMaxChars"
    /\ areaConnected
    /\ Len(textarea) = 2
    /\ counter = [count |-> 2, max |-> 1]

====
